---- MODULE Spec2Model ----
(***************************************************************************)
(* A model of bbg.py: the decoding of Bloomberg responses into Python      *)
(* dictionaries (SessionFactory, DataTypeFactory) and the three request    *)
(* calls (IntradayBarRequest, HistoricalDataRequest, ReferenceDataRequest).*)
(*                                                                         *)
(* Python values are records of one shape, so that any two can be          *)
(* compared: t is the Python type, s a string payload, n a tuple of        *)
(* integers (a number, the parts of a date), kv the entries of a dict or   *)
(* list in insertion order.                                                *)
(***************************************************************************)
EXTENDS Integers, Sequences, FiniteSets, TLC

PyVal(t, s, n, kv) == [t |-> t, s |-> s, n |-> n, kv |-> kv]

None == PyVal("None", "", <<>>, <<>>)

Str(s) == PyVal("str", s, <<>>, <<>>)

PyInt(i) == PyVal("int", "", <<i>>, <<>>)

PyDate(y, m, d) == PyVal("date", "", <<y, m, d>>, <<>>)

PyDateTime(y, m, d, H, M, S) == PyVal("datetime", "", <<y, m, d, H, M, S>>, <<>>)

PyTime(H, M, S) == PyVal("time", "", <<H, M, S>>, <<>>)

EmptyDict == PyVal("dict", "", <<>>, <<>>)

EmptyOrderedDict == PyVal("OrderedDict", "", <<>>, <<>>)

\* The class object NotImplementedError (a value, not a raised exception).
NotImplementedErrorClass == PyVal("type", "NotImplementedError", <<>>, <<>>)

Entry(k, v) == [k |-> k, val |-> v]

PyList2(a, b) == PyVal("list", "", <<>>, <<Entry(PyInt(0), a), Entry(PyInt(1), b)>>)

IsDict(v) == v.t \in {"dict", "OrderedDict"}

\* The outcome of a call: the exception it raised ("" for none) and its value.
Ok(v) == [exc |-> "", val |-> v]

Raise(e) == [exc |-> e, val |-> None]

(***************************************************************************)
(* dict operations, insertion-ordered as Python's are.                     *)
(***************************************************************************)
DictLen(d) == Len(d.kv)

HasKey(d, k) == \E i \in 1..Len(d.kv) : d.kv[i].k = k

KeyIndex(d, k) == CHOOSE i \in 1..Len(d.kv) : d.kv[i].k = k

GetItem(d, k) == d.kv[KeyIndex(d, k)].val

SetItem(d, k, v) ==
    IF HasKey(d, k)
    THEN [d EXCEPT !.kv[KeyIndex(d, k)].val = v]
    ELSE [d EXCEPT !.kv = Append(@, Entry(k, v))]

SetDefault(d, k, v) == IF HasKey(d, k) THEN d ELSE SetItem(d, k, v)

KeySet(d) == {d.kv[i].k : i \in 1..Len(d.kv)}

KeySeq(d) == [i \in 1..Len(d.kv) |-> d.kv[i].k]

RECURSIVE DictUpdate(_, _)
DictUpdate(x, ykv) ==
    IF ykv = <<>> THEN x
    ELSE DictUpdate(SetItem(x, Head(ykv).k, Head(ykv).val), Tail(ykv))

(***************************************************************************)
(* strftime on a date, datetime or time value.  fmt is the format split    *)
(* into directives and literal text.                                       *)
(***************************************************************************)
Pad2(i) == IF i < 10 THEN "0" \o ToString(i) ELSE ToString(i)

Pad4(i) ==
    IF i < 10 THEN "000" \o ToString(i)
    ELSE IF i < 100 THEN "00" \o ToString(i)
    ELSE IF i < 1000 THEN "0" \o ToString(i)
    ELSE ToString(i)

DatePart(v, p) ==
    CASE v.t = "date" -> IF p <= 3 THEN v.n[p] ELSE 0
      [] v.t = "datetime" -> v.n[p]
      [] v.t = "time" -> IF p = 1 THEN 1900 ELSE IF p <= 3 THEN 1 ELSE v.n[p - 3]

Directive(v, f) ==
    CASE f = "%Y" -> Pad4(DatePart(v, 1))
      [] f = "%m" -> Pad2(DatePart(v, 2))
      [] f = "%d" -> Pad2(DatePart(v, 3))
      [] f = "%H" -> Pad2(DatePart(v, 4))
      [] f = "%M" -> Pad2(DatePart(v, 5))
      [] f = "%S" -> Pad2(DatePart(v, 6))
      [] OTHER -> f

RECURSIVE FormatParts(_, _)
FormatParts(v, fmt) ==
    IF fmt = <<>> THEN "" ELSE Directive(v, Head(fmt)) \o FormatParts(v, Tail(fmt))

strftime(v, fmt) ==
    IF v.t \in {"date", "datetime", "time"} THEN Ok(Str(FormatParts(v, fmt)))
    ELSE Raise("AttributeError")

FmtDate == <<"%Y", "-", "%m", "-", "%d">>

FmtDateTime == <<"%Y", "-", "%m", "-", "%d", " ", "%H", ":", "%M", ":", "%S">>

FmtTime == <<"%H", ":", "%M", ":", "%S">>

FmtCompact == <<"%Y", "%m", "%d">>

(***************************************************************************)
(* blpapi elements as the code reads them: name(), datatype(), isArray(),  *)
(* isValid(), getValue() and the children that values() or elements()      *)
(* yield.                                                                  *)
(***************************************************************************)
Element(name, datatype, isArray, valid, value, children) ==
    [name |-> name, datatype |-> datatype, isArray |-> isArray, valid |-> valid,
     value |-> value, children |-> children]

Scalar(name, datatype, value) == Element(name, datatype, FALSE, TRUE, value, <<>>)

Sequence(name, children) == Element(name, "SEQUENCE", FALSE, TRUE, None, children)

Array(name, items) == Element(name, "SEQUENCE", TRUE, TRUE, None, items)

BBG_SEQUENCES == {"SEQUENCE", "BYTEARRAY", "CHOICE"}

isComplexType(e) == e.datatype \in {"SEQUENCE", "CHOICE"} /\ ~e.isArray

hasElement(e, name) == \E i \in 1..Len(e.children) : e.children[i].name = name

getElement(e, name) ==
    e.children[CHOOSE i \in 1..Len(e.children) : e.children[i].name = name]

\* _get_bbg_iterator: values() of an array, elements() of a complex type, else
\* None, which the caller's for loop cannot iterate.
_get_bbg_iterator(obj) ==
    IF obj.isArray \/ isComplexType(obj)
    THEN [exc |-> "", items |-> obj.children]
    ELSE [exc |-> "TypeError", items |-> <<>>]

\* Every call below gives an outcome Ok(value) or Raise(exception); a step that
\* needs an earlier outcome takes it as a parameter.
Failed(r) == r.exc # ""

\* _get_iterator_len: numValues() or numElements(), else None.
_get_iterator_len(obj) ==
    IF obj.isArray \/ isComplexType(obj) THEN PyInt(Len(obj.children)) ELSE None

(***************************************************************************)
(* DataTypeFactory                                                         *)
(***************************************************************************)
process_passthrough(data) == Ok(PyList2(Str(data.name), data.value))

process_correlation_id(data) == Ok(NotImplementedErrorClass)

process_enumeration(data) == Ok(NotImplementedErrorClass)

\* [str(data.name()), data.getValue().strftime(fmt)]
NamedAs(data, formatted) ==
    IF Failed(formatted) THEN formatted ELSE Ok(PyList2(Str(data.name), formatted.val))

process_date(data) == NamedAs(data, strftime(data.value, FmtDate))

process_date_time(data) == NamedAs(data, strftime(data.value, FmtDateTime))

process_time(data) == NamedAs(data, strftime(data.value, FmtTime))

PassthroughTypes ==
    {"BOOL", "BYTE", "BYTEARRAY", "CHAR", "DECIMAL", "FLOAT32", "FLOAT64", "INT32",
     "INT64", "STRING"}

\* process_factory.get(field_data_type)(data): a data type outside the table gives
\* None, and calling None raises TypeError.
process_factory(data) ==
    CASE data.datatype \in PassthroughTypes -> process_passthrough(data)
      [] data.datatype = "CORRELATION_ID" -> process_correlation_id(data)
      [] data.datatype = "ENUMERATION" -> process_enumeration(data)
      [] data.datatype = "DATE" -> process_date(data)
      [] data.datatype = "DATETIME" -> process_date_time(data)
      [] data.datatype = "TIME" -> process_time(data)
      [] OTHER -> Raise("TypeError")

\* return [single_val_results[0], single_val_results[1]]: a list is
\* subscriptable, a class object is not.
FirstTwo(single_val_results) ==
    IF Failed(single_val_results) THEN single_val_results
    ELSE IF single_val_results.val.t # "list" THEN Raise("TypeError")
    ELSE IF Len(single_val_results.val.kv) < 2 THEN Raise("IndexError")
    ELSE Ok(PyList2(single_val_results.val.kv[1].val, single_val_results.val.kv[2].val))

_field_factory(data) == FirstTwo(process_factory(data))

(***************************************************************************)
(* _element_factory: results and duplicate_elements are mutated in place   *)
(* by the code; here they are threaded through and returned.               *)
(***************************************************************************)
Decoded(results, dup) == Ok([results |-> results, dup |-> dup])

\* '{0}_{1}'.format(element_name, str(len(duplicate_elements)))
DuplicateName(element_name, duplicate_elements) ==
    Str(element_name \o "_" \o ToString(Len(duplicate_elements)))

\* A decoder that would store every composite element under its own name.
OwnName(element, duplicate_elements, results) == Str(element.name)

\* The key under which a composite element is stored.
ElementKey(element, duplicate_elements, results) ==
    IF ~HasKey(results, Str(element.name)) THEN Str(element.name)
    ELSE DuplicateName(element.name, duplicate_elements)

\* duplicate_elements.append(element_name), for a name already in results.
Registered(element, duplicate_elements, results) ==
    IF ~HasKey(results, Str(element.name)) THEN duplicate_elements
    ELSE Append(duplicate_elements, DuplicateName(element.name, duplicate_elements))

\* results[element_name], filled by the recursive calls.
StoreChildren(results, element_name, sub) ==
    IF Failed(sub) THEN sub
    ELSE Decoded(SetItem(results, element_name, sub.val.results), sub.val.dup)

\* results[single_value[0]] = single_value[1]
StoreScalar(results, duplicate_elements, single_value) ==
    IF Failed(single_value) THEN single_value
    ELSE IF ~IsDict(results) THEN Raise("TypeError")
    ELSE Decoded(SetItem(results, single_value.val.kv[1].val, single_value.val.kv[2].val),
                 duplicate_elements)

RECURSIVE _element_factory(_, _, _)
RECURSIVE CompositeElement(_, _, _)
RECURSIVE DecodeChildren(_, _, _)
RECURSIVE DecodeRest(_, _)
_element_factory(element, duplicate_elements, results) ==
    IF ~element.valid THEN Raise("NotFoundException")
    ELSE IF element.datatype \in BBG_SEQUENCES
    THEN CompositeElement(element, duplicate_elements,
                          IF results = None THEN EmptyDict ELSE results)
    ELSE StoreScalar(results, duplicate_elements, _field_factory(element))

\* The composite branch: results[element_name] = {}, then every sub element is
\* decoded into results[element_name].
CompositeElement(element, duplicate_elements, results) ==
    IF Failed(_get_bbg_iterator(element)) THEN Raise("TypeError")
    ELSE StoreChildren(results, ElementKey(element, duplicate_elements, results),
                       DecodeChildren(element.children,
                                      Registered(element, duplicate_elements, results),
                                      EmptyDict))

\* for sub_element in self._get_bbg_iterator(element)
DecodeChildren(items, dup, results) ==
    IF items = <<>> THEN Decoded(results, dup)
    ELSE DecodeRest(Tail(items), _element_factory(Head(items), dup, results))

DecodeRest(items, r) ==
    IF Failed(r) THEN r ELSE DecodeChildren(items, r.val.dup, r.val.results)

(***************************************************************************)
(* _flatten_dict and _merge_two_dicts                                      *)
(***************************************************************************)
RECURSIVE _flatten_dict(_)
_flatten_dict(obj) ==
    IF ~IsDict(obj) THEN obj
    ELSE IF DictLen(obj) > 1 THEN obj
    ELSE IF DictLen(obj) = 0 THEN None
    ELSE IF IsDict(obj.kv[1].val) /\ DictLen(obj.kv[1].val) = 1 THEN obj.kv[1].val
    ELSE _flatten_dict(obj.kv[1].val)

\* A merge that would keep the earlier fragment's value of a key in both.
EarlierWins(x, y) ==
    DictUpdate(x, SelectSeq(y.kv, LAMBDA e : ~HasKey(x, e.k)))

\* A merge that would put the later fragment's keys first.
LaterFirst(x, y) == DictUpdate(y, x.kv)

_merge_two_dicts(x, y) == DictUpdate(x, y.kv)

\* _merge_two_dicts on objects: heap holds the dicts that exist, x and y are
\* positions in it; z is a new object, the copy of x updated with y.
MergeObjects(heap, x, y) ==
    [heap |-> Append(heap, _merge_two_dicts(heap[x], heap[y])), ref |-> Len(heap) + 1]

(***************************************************************************)
(* The names of the elements the decoders read.                            *)
(***************************************************************************)
SECURITY_DATA == "securityData"

SECURITY == "security"

BAR_DATA == "barData"

BAR_TICK_DATA == "barTickData"

FIELD_DATA == "fieldData"

FIELD_EXCEPTIONS == "fieldExceptions"

SECURITY_ERROR == "securityError"

RESPONSE_ERROR == "responseError"

FIELD_ID == "fieldId"

ERROR_INFO == "errorInfo"

CATEGORY == "category"

HISTORICAL_DATA == "HistoricalDataRequest"

REFERENCE_DATA == "ReferenceDataRequest"

INTRADAY_BAR_DATA == "IntradayBarRequest"

\* str(v) and getElementAsString for the values the decoders convert.
AsStr(v) ==
    CASE v.t = "str" -> v
      [] v.t = "int" -> Str(ToString(v.n[1]))
      [] v.t = "None" -> Str("None")
      [] OTHER -> Str(v.s)

\* A dict filled in a loop with d[str(e.name())] = e.getValue().
RECURSIVE NameValueDict(_, _)
NameValueDict(items, d) ==
    IF items = <<>> THEN d
    ELSE NameValueDict(Tail(items), SetItem(d, Str(Head(items).name), Head(items).value))

_response_error_factory(response_array) ==
    IF Failed(_get_bbg_iterator(response_array)) THEN Raise("TypeError")
    ELSE Ok(NameValueDict(response_array.children, EmptyDict))

_security_error_factory(security_error) ==
    IF Failed(_get_bbg_iterator(security_error)) THEN Raise("TypeError")
    ELSE Ok(NameValueDict(security_error.children, EmptyDict))

\* field_exception.getElement(ERROR_INFO), its CATEGORY and the FIELD_ID exist.
WellFormedException(field_exception) ==
    /\ hasElement(field_exception, ERROR_INFO)
    /\ hasElement(field_exception, FIELD_ID)
    /\ hasElement(getElement(field_exception, ERROR_INFO), CATEGORY)

RECURSIVE FieldExceptionDict(_, _)
FieldExceptionDict(items, d) ==
    IF items = <<>> THEN Ok(d)
    ELSE IF ~WellFormedException(Head(items)) THEN Raise("NotFoundException")
    ELSE FieldExceptionDict(Tail(items),
             SetItem(d, AsStr(getElement(getElement(Head(items), ERROR_INFO), CATEGORY).value),
                     AsStr(getElement(Head(items), FIELD_ID).value)))

_field_exception_factory(field_exception_array) ==
    IF Failed(_get_bbg_iterator(field_exception_array)) THEN Raise("TypeError")
    ELSE FieldExceptionDict(field_exception_array.children, EmptyDict)

(***************************************************************************)
(* The message decoders.  A message is its correlation ids, its            *)
(* messageType() and its top element.  A decoder returns (security,        *)
(* results) or raises.                                                     *)
(***************************************************************************)
Message(corr, messageType, children) ==
    [corr |-> corr, messageType |-> messageType, root |-> Sequence(messageType, children)]

Returned(security, results) == Ok([security |-> security, results |-> results])

\* return None, self._response_error_factory(msg.getElement(RESPONSE_ERROR))
ResponseErrorResult(response_errors) ==
    IF Failed(response_errors) THEN response_errors ELSE Returned(None, response_errors.val)

\* One bar tick: data.setdefault(str(element.name()), element.getValue()) for each
\* of its elements.
RECURSIVE TickData(_, _)
TickData(elements, data) ==
    IF elements = <<>> THEN data
    ELSE TickData(Tail(elements),
                  SetDefault(data, Str(Head(elements).name), Head(elements).value))

\* results[data['time']] = data
StoreTick(results, data) ==
    IF ~HasKey(data, Str("time")) THEN Raise("KeyError")
    ELSE Ok(SetItem(results, GetItem(data, Str("time")), data))

RECURSIVE BarTicks(_, _)
BarTicks(ticks, results) ==
    IF Failed(results) THEN results
    ELSE IF ticks = <<>> THEN Returned(None, results.val)
    ELSE BarTicks(Tail(ticks),
                  StoreTick(results.val, TickData(Head(ticks).children, EmptyDict)))

\* A decoder that would take a message without barData for one without ticks.
NoBarDataNoTicks(msg) ==
    IF hasElement(msg.root, RESPONSE_ERROR)
    THEN ResponseErrorResult(_response_error_factory(getElement(msg.root, RESPONSE_ERROR)))
    ELSE IF ~hasElement(msg.root, BAR_DATA) THEN Returned(None, EmptyOrderedDict)
    ELSE IF ~hasElement(getElement(msg.root, BAR_DATA), BAR_TICK_DATA)
    THEN Raise("NotFoundException")
    ELSE BarTicks(getElement(getElement(msg.root, BAR_DATA), BAR_TICK_DATA).children,
                  Ok(EmptyOrderedDict))

_process_intraday_data_msg(msg) ==
    IF hasElement(msg.root, RESPONSE_ERROR)
    THEN ResponseErrorResult(_response_error_factory(getElement(msg.root, RESPONSE_ERROR)))
    ELSE IF ~hasElement(msg.root, BAR_DATA) THEN Raise("NotFoundException")
    ELSE IF ~hasElement(getElement(msg.root, BAR_DATA), BAR_TICK_DATA)
    THEN Raise("NotFoundException")
    ELSE BarTicks(getElement(getElement(msg.root, BAR_DATA), BAR_TICK_DATA).children,
                  Ok(EmptyOrderedDict))

PerSecurity(security_data, field_exceptions, security_errors) ==
    PyVal("dict", "", <<>>,
          <<Entry(Str("security_data"), security_data),
            Entry(Str("field_exceptions"), field_exceptions),
            Entry(Str("security_errors"), security_errors)>>)

\* self._flatten_dict(self._element_factory(field_data, []))
FlattenDecoded(decoded) ==
    IF Failed(decoded) THEN decoded ELSE Ok(_flatten_dict(decoded.val.results))

\* security_data_results of one securityData item of a reference message.
RefSecurityData(field_data) ==
    IF _get_iterator_len(field_data) = None THEN Raise("TypeError")
    ELSE IF _get_iterator_len(field_data).n[1] > 0
    THEN FlattenDecoded(_element_factory(field_data, <<>>, None))
    ELSE Ok(EmptyDict)

\* A decoder that would drop the security error of an item.
SecurityErrorDropped(item) == Ok(EmptyDict)

\* security_errors of one item.
RefSecurityErrors(item) ==
    IF hasElement(item, SECURITY_ERROR)
    THEN _security_error_factory(getElement(item, SECURITY_ERROR))
    ELSE Ok(EmptyDict)

\* field_exceptions of one item.
RefFieldExceptions(item) ==
    IF ~hasElement(item, FIELD_EXCEPTIONS) THEN Raise("NotFoundException")
    ELSE IF _get_iterator_len(getElement(item, FIELD_EXCEPTIONS)) = None
    THEN Raise("TypeError")
    ELSE IF _get_iterator_len(getElement(item, FIELD_EXCEPTIONS)).n[1] > 0
    THEN _field_exception_factory(getElement(item, FIELD_EXCEPTIONS))
    ELSE Ok(EmptyDict)

RefItemResult(security, security_data_results, security_errors, field_exceptions) ==
    IF Failed(security_data_results) THEN security_data_results
    ELSE IF Failed(security_errors) THEN security_errors
    ELSE IF Failed(field_exceptions) THEN field_exceptions
    ELSE Returned(security,
                  PerSecurity(security_data_results.val, field_exceptions.val,
                              security_errors.val))

\* The body of the reference decoder's loop for one securityData item: the
\* item's security and its three mappings, or the exception raised.
RefItem(item) ==
    IF ~hasElement(item, SECURITY) \/ ~hasElement(item, FIELD_DATA)
    THEN Raise("NotFoundException")
    ELSE RefItemResult(AsStr(getElement(item, SECURITY).value),
                       RefSecurityData(getElement(item, FIELD_DATA)),
                       RefSecurityErrors(item), RefFieldExceptions(item))

\* The loop over the securityData items: results[security] = ... for a collection
\* of more than one item, results = ... otherwise.
RECURSIVE RefItems(_, _, _)
RECURSIVE RefItemsRest(_, _, _, _)
RefItems(items, security_iterator_len, acc) ==
    IF items = <<>> THEN acc
    ELSE RefItemsRest(Tail(items), security_iterator_len, acc.val, RefItem(Head(items)))

RefItemsRest(items, security_iterator_len, acc, r) ==
    IF Failed(r) THEN r
    ELSE RefItems(items, security_iterator_len,
                  Returned(r.val.security,
                           IF security_iterator_len > 1
                           THEN SetItem(acc.results, r.val.security, r.val.results)
                           ELSE r.val.results))

\* A decoder that would return the last security whatever the collection's size.
LastSecurityReturned(security_iterator_len, r) == r

\* return None, results for more than one item, else return security, results.
RefShape(security_iterator_len, r) ==
    IF Failed(r) THEN r
    ELSE IF security_iterator_len > 1 THEN Returned(None, r.val.results)
    ELSE r

_process_ref_data_msg(msg) ==
    IF hasElement(msg.root, RESPONSE_ERROR)
    THEN ResponseErrorResult(_response_error_factory(getElement(msg.root, RESPONSE_ERROR)))
    ELSE IF ~hasElement(msg.root, SECURITY_DATA) THEN Raise("NotFoundException")
    ELSE IF Failed(_get_bbg_iterator(getElement(msg.root, SECURITY_DATA)))
    THEN Raise("TypeError")
    ELSE RefShape(Len(getElement(msg.root, SECURITY_DATA).children),
                  RefItems(getElement(msg.root, SECURITY_DATA).children,
                           Len(getElement(msg.root, SECURITY_DATA).children),
                           Returned(None, EmptyDict)))

\* One fieldData row of a historical message: the date element sets the row's
\* key, every other element goes into item_data.
RECURSIVE HistRow(_, _, _, _)
HistRow(elements, date, item_data, security_data_results) ==
    IF elements = <<>>
    THEN SetItem(security_data_results, date, item_data)
    ELSE IF Head(elements).name = "date"
    THEN HistRow(Tail(elements), Head(elements).value, item_data,
                 SetDefault(security_data_results, Head(elements).value, EmptyDict))
    ELSE HistRow(Tail(elements), date,
                 SetItem(item_data, Str(Head(elements).name), Head(elements).value),
                 security_data_results)

RECURSIVE HistRows(_, _)
HistRows(rows, security_data_results) ==
    IF rows = <<>> THEN Ok(security_data_results)
    ELSE IF Failed(_get_bbg_iterator(Head(rows))) THEN Raise("TypeError")
    ELSE HistRows(Tail(rows),
                  HistRow(Head(rows).children, None, EmptyDict, security_data_results))

\* security_data_results of a historical message.
HistSecurityDataResults(field_data) ==
    IF _get_iterator_len(field_data) = None THEN Raise("TypeError")
    ELSE IF _get_iterator_len(field_data).n[1] > 0
    THEN HistRows(field_data.children, EmptyDict)
    ELSE Ok(EmptyDict)

\* field_exceptions of a historical message.
HistFieldExceptions(security_data) ==
    IF hasElement(security_data, FIELD_EXCEPTIONS)
    THEN _field_exception_factory(getElement(security_data, FIELD_EXCEPTIONS))
    ELSE Ok(EmptyDict)

\* A decoder that would return the security errors alone.
ErrorsAlone(security, security_errors) ==
    IF Failed(security_errors) THEN security_errors
    ELSE Returned(security,
                  PyVal("dict", "", <<>>,
                        <<Entry(Str("security_errors"), security_errors.val)>>))

\* The security-error return of the historical decoder.
HistErrorResult(security, security_errors) ==
    IF Failed(security_errors) THEN security_errors
    ELSE Returned(security,
                  PyVal("dict", "", <<>>,
                        <<Entry(Str("security_errors"), security_errors.val),
                          Entry(Str("security_data"), EmptyDict),
                          Entry(Str("field_exceptions"), EmptyDict)>>))

\* The final return of the historical decoder.
HistResult(security, field_exceptions, security_data_results) ==
    IF Failed(field_exceptions) THEN field_exceptions
    ELSE IF Failed(security_data_results) THEN security_data_results
    ELSE Returned(security,
                  PyVal("dict", "", <<>>,
                        <<Entry(Str("security_data"), security_data_results.val),
                          Entry(Str("security_errors"), EmptyDict),
                          Entry(Str("field_exceptions"), field_exceptions.val)>>))

\* The historical decoder from security_data on.
HistSecurity(security_data) ==
    IF ~hasElement(security_data, SECURITY) THEN Raise("NotFoundException")
    ELSE IF hasElement(security_data, SECURITY_ERROR)
    THEN HistErrorResult(AsStr(getElement(security_data, SECURITY).value),
                         _security_error_factory(getElement(security_data, SECURITY_ERROR)))
    ELSE IF ~hasElement(security_data, FIELD_DATA)
    THEN IF Failed(HistFieldExceptions(security_data))
         THEN HistFieldExceptions(security_data)
         ELSE Raise("NotFoundException")
    ELSE HistResult(AsStr(getElement(security_data, SECURITY).value),
                    HistFieldExceptions(security_data),
                    HistSecurityDataResults(getElement(security_data, FIELD_DATA)))

\* A decoder that would look for its container before the response error.
ContainerBeforeError(msg) ==
    IF ~hasElement(msg.root, SECURITY_DATA) THEN Raise("NotFoundException")
    ELSE IF hasElement(msg.root, RESPONSE_ERROR)
    THEN ResponseErrorResult(_response_error_factory(getElement(msg.root, RESPONSE_ERROR)))
    ELSE HistSecurity(getElement(msg.root, SECURITY_DATA))

_process_historical_data_msg(msg) ==
    IF hasElement(msg.root, RESPONSE_ERROR)
    THEN ResponseErrorResult(_response_error_factory(getElement(msg.root, RESPONSE_ERROR)))
    ELSE IF ~hasElement(msg.root, SECURITY_DATA) THEN Raise("NotFoundException")
    ELSE HistSecurity(getElement(msg.root, SECURITY_DATA))

\* msg_processes[self.request_type](msg)
msg_processes(request_type, msg) ==
    CASE request_type = HISTORICAL_DATA -> _process_historical_data_msg(msg)
      [] request_type = REFERENCE_DATA -> _process_ref_data_msg(msg)
      [] request_type = INTRADAY_BAR_DATA -> _process_intraday_data_msg(msg)
      [] OTHER -> Raise("KeyError")

(***************************************************************************)
(* process_session: what the loop body does with one message that carries  *)
(* the correlation id.                                                     *)
(***************************************************************************)
\* if v: for the values tested so.
Truthy(v) == v \notin {None, Str(""), EmptyDict, EmptyOrderedDict}

_get_response_count(security, security_responses, request_type) ==
    Cardinality({i \in 1..Len(security_responses[security]) :
                    security_responses[security][i] = request_type})

\* security_responses[security].append(response_type), the list created first
\* when the key is new.
AppendResponse(security_responses, security, response_type) ==
    IF security \notin DOMAIN security_responses
    THEN security_responses @@ (security :> <<response_type>>)
    ELSE [security_responses EXCEPT ![security] = Append(@, response_type)]

Folded(output, security_responses) ==
    Ok([output |-> output, security_responses |-> security_responses])

\* output[security] = self._merge_two_dicts(output[security], sec_results)
MergeUnderSecurity(output, security, sec_results, security_responses) ==
    IF ~HasKey(output, security) THEN Raise("KeyError")
    ELSE IF ~IsDict(GetItem(output, security)) THEN Raise("AttributeError")
    ELSE Folded(SetItem(output, security,
                        _merge_two_dicts(GetItem(output, security), sec_results)),
                security_responses)

\* if security: ... else: ..., each merging from the second response of a type on.
StoreFragment(security, sec_results, msg_response_count, output, security_responses) ==
    IF Truthy(security)
    THEN IF msg_response_count > 1
         THEN MergeUnderSecurity(output, security, sec_results, security_responses)
         ELSE Folded(SetItem(output, security, sec_results), security_responses)
    ELSE IF msg_response_count > 1
         THEN Folded(_merge_two_dicts(output, sec_results), security_responses)
         ELSE Folded(sec_results, security_responses)

\* The loop body from security_responses[security].append(response_type) on.
CountAndStore(security, sec_results, response_type, output, security_responses) ==
    StoreFragment(security, sec_results,
                  _get_response_count(security, security_responses, response_type),
                  output, security_responses)

FoldDecoded(decoded, response_type, output, security_responses) ==
    IF Failed(decoded) THEN decoded
    ELSE CountAndStore(decoded.val.security, decoded.val.results, response_type, output,
                       AppendResponse(security_responses, decoded.val.security,
                                      response_type))

FoldMessage(request_type, msg, output, security_responses) ==
    FoldDecoded(msg_processes(request_type, msg), msg.messageType, output,
                security_responses)

\* A loop that would also end after a partial response.
EndsOnAnyResponse(event) == event.type \in {"RESPONSE", "PARTIAL_RESPONSE"}

\* if ev.eventType() == blpapi.Event.RESPONSE: break
IsTerminal(event) == event.type = "RESPONSE"

(***************************************************************************)
(* The messages and events the session delivers.  They are inputs: the     *)
(* sets below hold the shapes blpapi produces for the three requests.      *)
(***************************************************************************)
MaxEvents == 2

MaxMessages == 2

MaxFragments == 2
LiveFragments == 3

Cid == "cid"

OtherCid == "other"

ResponseTag(request_type) ==
    CASE request_type = HISTORICAL_DATA -> "HistoricalDataResponse"
      [] request_type = REFERENCE_DATA -> "ReferenceDataResponse"
      [] OTHER -> "IntradayBarResponse"

OtherTag == "OtherResponse"

ErrorInfo(name, category) ==
    Sequence(name, <<Scalar("category", "STRING", Str(category)),
                     Scalar("message", "STRING", Str("failed"))>>)

FieldException(fieldId, category) ==
    Sequence(FIELD_EXCEPTIONS,
             <<Scalar("fieldId", "STRING", Str(fieldId)), ErrorInfo(ERROR_INFO, category)>>)

HistRowElement(day, value) ==
    Sequence(FIELD_DATA, <<Scalar("date", "DATE", PyDate(2024, 1, day)),
                           Scalar("PX_LAST", "FLOAT64", PyInt(value))>>)

HistSecurityData(security, rows, exceptions) ==
    Sequence(SECURITY_DATA,
             <<Scalar(SECURITY, "STRING", Str(security)),
               Array(FIELD_EXCEPTIONS, exceptions),
               Array(FIELD_DATA, rows)>>)

HistSecurityError(security) ==
    Sequence(SECURITY_DATA,
             <<Scalar(SECURITY, "STRING", Str(security)),
               ErrorInfo(SECURITY_ERROR, "BAD_SEC"),
               Array(FIELD_EXCEPTIONS, <<>>),
               Array(FIELD_DATA, <<>>)>>)

HistContainers ==
    {<<HistSecurityData("A", <<HistRowElement(1, 10), HistRowElement(2, 11)>>, <<>>)>>,
     <<HistSecurityData("A", <<HistRowElement(3, 12)>>, <<>>)>>,
     <<HistSecurityData("A", <<HistRowElement(1, 20)>>,
                        <<FieldException("BAD_FLD", "BAD_FLD")>>)>>,
     <<HistSecurityError("B")>>,
     <<HistSecurityError("A")>>,
     <<ErrorInfo(RESPONSE_ERROR, "BAD_ARGS")>>,
     <<ErrorInfo(RESPONSE_ERROR, "BAD_ARGS"), HistSecurityData("A", <<>>, <<>>)>>,
     <<>>}

RefGood(security, fields) ==
    Sequence(SECURITY_DATA,
             <<Scalar(SECURITY, "STRING", Str(security)),
               Sequence(FIELD_DATA, fields),
               Array(FIELD_EXCEPTIONS, <<>>)>>)

RefBad(security) ==
    Sequence(SECURITY_DATA,
             <<Scalar(SECURITY, "STRING", Str(security)),
               Sequence(FIELD_DATA, <<>>),
               ErrorInfo(SECURITY_ERROR, "BAD_SEC"),
               Array(FIELD_EXCEPTIONS, <<>>)>>)

RefPartial(security) ==
    Sequence(SECURITY_DATA,
             <<Scalar(SECURITY, "STRING", Str(security)),
               Sequence(FIELD_DATA, <<Scalar("PX_LAST", "FLOAT64", PyInt(3))>>),
               Array(FIELD_EXCEPTIONS, <<FieldException("BAD_FLD", "BAD_FLD")>>)>>)

OneField == <<Scalar("PX_LAST", "FLOAT64", PyInt(1))>>

TwoFields ==
    <<Scalar("PX_LAST", "FLOAT64", PyInt(2)), Scalar("NAME", "STRING", Str("n"))>>

BulkField ==
    <<Array("DVD_HIST",
            <<Sequence("DVD_HIST", <<Scalar("Amount", "FLOAT64", PyInt(1))>>),
              Sequence("DVD_HIST", <<Scalar("Amount", "FLOAT64", PyInt(2))>>)>>)>>

RefItemSeqs ==
    {<<RefGood("A", OneField)>>,
     <<RefGood("C", BulkField)>>,
     <<RefBad("B")>>,
     <<RefPartial("A")>>,
     <<RefGood("A", TwoFields), RefBad("B")>>}

RefContainers ==
    {<<Array(SECURITY_DATA, items)>> : items \in RefItemSeqs}
    \cup {<<ErrorInfo(RESPONSE_ERROR, "BAD_ARGS")>>,
          <<ErrorInfo(RESPONSE_ERROR, "BAD_ARGS"),
            Array(SECURITY_DATA, <<RefGood("A", OneField)>>)>>,
          <<>>}

BarTick(minute, open) ==
    Sequence(BAR_TICK_DATA,
             <<Scalar("time", "DATETIME", PyDateTime(2024, 1, 2, 9, minute, 0)),
               Scalar("open", "FLOAT64", PyInt(open)),
               Scalar("volume", "INT64", PyInt(100))>>)

BarData(ticks) == Sequence(BAR_DATA, <<Array(BAR_TICK_DATA, ticks)>>)

BarContainers ==
    {<<BarData(<<BarTick(30, 1), BarTick(31, 2)>>)>>,
     <<BarData(<<BarTick(32, 3)>>)>>,
     <<BarData(<<BarTick(29, 4)>>)>>,
     <<BarData(<<BarTick(30, 6)>>)>>,
     <<ErrorInfo(RESPONSE_ERROR, "BAD_ARGS")>>,
     <<ErrorInfo(RESPONSE_ERROR, "BAD_ARGS"), BarData(<<BarTick(30, 1)>>)>>,
     <<>>}

Containers(request_type) ==
    CASE request_type = HISTORICAL_DATA -> HistContainers
      [] request_type = REFERENCE_DATA -> RefContainers
      [] OTHER -> BarContainers

\* The contents also delivered under another message type.
OtherTagContainers(request_type) ==
    CASE request_type = HISTORICAL_DATA ->
            {<<HistSecurityData("A", <<HistRowElement(3, 12)>>, <<>>)>>,
             <<ErrorInfo(RESPONSE_ERROR, "BAD_ARGS")>>}
      [] request_type = REFERENCE_DATA ->
            {<<Array(SECURITY_DATA, <<RefBad("B")>>)>>,
             <<ErrorInfo(RESPONSE_ERROR, "BAD_ARGS")>>}
      [] OTHER ->
            {<<BarData(<<BarTick(32, 3)>>)>>, <<ErrorInfo(RESPONSE_ERROR, "BAD_ARGS")>>}

\* The messages of the request's own correlation id.
Matching(request_type) ==
    {Message({Cid}, ResponseTag(request_type), c) : c \in Containers(request_type)}
    \cup {Message({Cid}, OtherTag, c) : c \in OtherTagContainers(request_type)}

\* A message of another request: it would change the output if it were decoded.
Foreign(request_type) ==
    CASE request_type = HISTORICAL_DATA ->
            Message({OtherCid}, ResponseTag(request_type),
                    <<HistSecurityData("Z", <<HistRowElement(9, 99)>>, <<>>)>>)
      [] request_type = REFERENCE_DATA ->
            Message({OtherCid}, ResponseTag(request_type),
                    <<Array(SECURITY_DATA, <<RefGood("Z", OneField)>>)>>)
      [] OTHER ->
            Message({OtherCid}, ResponseTag(request_type),
                    <<BarData(<<BarTick(59, 99)>>)>>)

Messages(request_type) == Matching(request_type) \cup {Foreign(request_type)}

MessageSeqs(request_type, n) ==
    UNION {[1..k -> Messages(request_type)] : k \in 0..n}

Event(type, msgs) == [type |-> type, msgs |-> msgs]

NoEvent == Event("", <<>>)

MatchCount(msgs) == Cardinality({j \in 1..Len(msgs) : Cid \in msgs[j].corr})

\* The events nextEvent(500) may return: a timeout carries no message, a status
\* event carries messages of no request.
Events(request_type, room) ==
    {Event("TIMEOUT", <<>>)}
    \cup {Event("SESSION_STATUS", m) :
             m \in {<<>>, <<Foreign(request_type)>>}}
    \cup {Event(t, m) :
             t \in {"PARTIAL_RESPONSE", "RESPONSE"},
             m \in {x \in MessageSeqs(request_type, MaxMessages) : MatchCount(x) <= room}}

(***************************************************************************)
(* process_session run over a whole stream of events, as the request calls *)
(* run it: the events up to the first RESPONSE event are consumed.         *)
(***************************************************************************)
RECURSIVE ForMessages(_, _, _)
ForMessages(request_type, msgs, acc) ==
    IF Failed(acc) \/ msgs = <<>> THEN acc
    ELSE ForMessages(request_type, Tail(msgs),
                     IF Cid \in Head(msgs).corr
                     THEN FoldMessage(request_type, Head(msgs), acc.val.output,
                                      acc.val.security_responses)
                     ELSE acc)

RECURSIVE process_session(_, _, _)
RECURSIVE WhileTrue(_, _, _)
process_session(request_type, events, acc) ==
    IF events = <<>> THEN Raise("NoMoreEvents")
    ELSE WhileTrue(request_type, events, ForMessages(request_type, Head(events).msgs, acc))

WhileTrue(request_type, events, acc) ==
    IF Failed(acc) THEN acc
    ELSE IF IsTerminal(Head(events)) THEN Ok(acc.val.output)
    ELSE process_session(request_type, Tail(events), acc)

(***************************************************************************)
(* Session, Request and the three request calls.                           *)
(***************************************************************************)
DEFAULT_HOST == Str("localhost")

DEFAULT_PORT == PyInt(8194)

\* a or b
PyOr(a, b) == IF Truthy(a) THEN a ELSE b

\* Session.__init__: the host and the port given to the session options.
Session(host, port) ==
    PyVal("dict", "", <<>>,
          <<Entry(Str("host"), PyOr(DEFAULT_HOST, host)),
            Entry(Str("port"), PyOr(DEFAULT_PORT, port))>>)

PyList(items) ==
    PyVal("list", "", <<>>, [i \in 1..Len(items) |-> Entry(PyInt(i - 1), items[i])])

ListItems(l) == [i \in 1..Len(l.kv) |-> l.kv[i].val]

Periodicities == {"DAILY", "WEEKLY", "MONTHLY", "QUARTERLY", "SEMI-ANNUAL", "YEARLY"}

FillOptions == {"NON_TRADING_WEEKDAYS", "ALL_CALENDAR_DAYS", "ACTIVE_DAYS_ONLY"}

FillMethods == {"PREVIOUS_VALUE", "NIL_VALUE"}

\* x in (...) for a tuple of strings
InStrings(x, strings) == x.t = "str" /\ x.s \in strings

\* The asserts of the three get methods: the exception leaving the try block,
\* "" when all pass.  isinstance(ticker) lacks its second argument and raises
\* TypeError, which except AssertionError does not catch.
IntradayAsserts(a) == "TypeError"

HistoricalAsserts(a) ==
    IF /\ a.tickers.t = "list"
       /\ a.fields.t = "list"
       /\ InStrings(a.periodicity, Periodicities)
       /\ a.start_date.t = "datetime"
       /\ a.end_date.t = "datetime"
       /\ a.max_data_points.t = "int"
       /\ InStrings(a.non_trading_day_fill_option, FillOptions)
       /\ InStrings(a.non_trading_day_fill_method, FillMethods)
    THEN "" ELSE "AssertionError"

ReferenceAsserts(a) ==
    IF /\ a.tickers.t = "list"
       /\ a.fields.t = "list"
       /\ (Truthy(a.overrides) => a.overrides.t = "dict")
    THEN "" ELSE "AssertionError"

Asserts(request, a) ==
    CASE request = INTRADAY_BAR_DATA -> IntradayAsserts(a)
      [] request = HISTORICAL_DATA -> HistoricalAsserts(a)
      [] OTHER -> ReferenceAsserts(a)

\* ReferenceDataRequest.format_override: a field id other than CURVE_DATE falls
\* off the end of the function, which returns None.
format_override(field_id, value) ==
    IF field_id = Str("CURVE_DATE") THEN strftime(value, FmtCompact) ELSE Ok(None)

\* The blpapi request: the values appended and set, in order.
EmptyRequest == [securities |-> <<>>, fields |-> <<>>, elements |-> EmptyDict,
                 overrides |-> <<>>]

RECURSIVE AppendOverrides(_, _)
AppendOverrides(kv, overrides) ==
    IF Failed(overrides) \/ kv = <<>> THEN overrides
    ELSE IF Failed(format_override(Head(kv).k, Head(kv).val))
    THEN format_override(Head(kv).k, Head(kv).val)
    ELSE AppendOverrides(Tail(kv),
             Ok(Append(overrides.val,
                       [fieldId |-> Head(kv).k,
                        value |-> format_override(Head(kv).k, Head(kv).val).val])))

\* request.set(name, value) for each pair.
RECURSIVE SetAll(_, _)
SetAll(elements, pairs) ==
    IF pairs = <<>> THEN elements
    ELSE SetAll(SetItem(elements, Str(pairs[1][1]), pairs[1][2]), Tail(pairs))

IntradayRequest(a) ==
    Ok([EmptyRequest EXCEPT !.elements =
            SetAll(EmptyDict, <<<<"security", a.ticker>>, <<"eventType", a.event_type>>,
                                <<"interval", a.interval>>,
                                <<"startDateTime", a.start_date>>,
                                <<"endDateTime", a.end_date>>,
                                <<"maxDataPoints", a.max_data_points>>>>)])

\* start_date and end_date are the strings strftime('%Y%m%d') gave.
HistoricalRequest(a, start_date, end_date) ==
    IF Failed(start_date) THEN start_date
    ELSE IF Failed(end_date) THEN end_date
    ELSE Ok([EmptyRequest EXCEPT
                !.securities = ListItems(a.tickers),
                !.fields = ListItems(a.fields),
                !.elements =
                    SetAll(EmptyDict,
                           <<<<"periodicityAdjustment", Str("ACTUAL")>>,
                             <<"periodicitySelection", a.periodicity>>,
                             <<"startDate", start_date.val>>,
                             <<"endDate", end_date.val>>,
                             <<"maxDataPoints", a.max_data_points>>,
                             <<"nonTradingDayFillOption", a.non_trading_day_fill_option>>,
                             <<"nonTradingDayFillMethod", a.non_trading_day_fill_method>>>>)])

ReferenceRequest(a, overrides) ==
    IF Failed(overrides) THEN overrides
    ELSE Ok([EmptyRequest EXCEPT !.securities = ListItems(a.tickers),
                                 !.fields = ListItems(a.fields),
                                 !.overrides = overrides.val])

\* The request as the try block fills it before sendRequest.
FilledRequest(request, a) ==
    CASE request = INTRADAY_BAR_DATA -> IntradayRequest(a)
      [] request = HISTORICAL_DATA ->
            HistoricalRequest(a, strftime(a.start_date, FmtCompact),
                              strftime(a.end_date, FmtCompact))
      [] OTHER ->
            ReferenceRequest(a, IF Truthy(a.overrides)
                                THEN AppendOverrides(a.overrides.kv, Ok(<<>>))
                                ELSE Ok(<<>>))

(***************************************************************************)
(* The arguments the request calls are made with, and the event streams    *)
(* their sessions deliver.                                                 *)
(***************************************************************************)
Jan(day) == PyDateTime(2024, 1, day, 0, 0, 0)

IntradayArgs ==
    [ticker : {Str("IBM US Equity")}, event_type : {Str("TRADE"), Str("MID")},
     interval : {PyInt(30)}, start_date : {Jan(2)}, end_date : {Jan(3)},
     max_data_points : {PyInt(2500)}]

HistoricalArgs ==
    [tickers : {PyList(<<Str("A")>>), PyList(<<Str("A"), Str("B")>>), Str("A")},
     fields : {PyList(<<Str("PX_LAST")>>)},
     start_date : {Jan(1), Str("20240101")}, end_date : {Jan(31)},
     periodicity : {Str("DAILY"), Str("HOURLY")}, max_data_points : {PyInt(2500)},
     non_trading_day_fill_option : {Str("ACTIVE_DAYS_ONLY")},
     non_trading_day_fill_method : {Str("NIL_VALUE")}]

OverrideDicts ==
    {None,
     PyVal("dict", "", <<>>, <<Entry(Str("CURVE_DATE"), Jan(1))>>),
     PyVal("dict", "", <<>>, <<Entry(Str("SETTLE_DT"), Str("20240105"))>>),
     PyVal("dict", "", <<>>,
           <<Entry(Str("SETTLE_DT"), Str("20240105")), Entry(Str("CURVE_DATE"), Jan(1))>>),
     Str("CURVE_DATE")}

ReferenceArgs ==
    [tickers : {PyList(<<Str("A")>>), PyList(<<Str("A"), Str("B")>>), Str("A")},
     fields : {PyList(<<Str("PX_LAST")>>)}, overrides : OverrideDicts]

Args(request) ==
    CASE request = INTRADAY_BAR_DATA -> IntradayArgs
      [] request = HISTORICAL_DATA -> HistoricalArgs
      [] OTHER -> ReferenceArgs

\* The streams a started session delivers to a request call: they end with a
\* RESPONSE event.
Streams(request) ==
    {<<Event("RESPONSE", <<m>>)>> : m \in Matching(request)}
    \cup {<<Event("PARTIAL_RESPONSE", <<m1>>), Event("RESPONSE", <<m2>>)>> :
             m1 \in Matching(request), m2 \in Matching(request)}

(***************************************************************************)
(* The inputs of the functions checked on their own.                       *)
(***************************************************************************)
MaxDepth == 3

MaxChildren == 3

Keys == {"a", "b"}

Leaves == {Str("x"), PyInt(1)}

OneKey(k, v) == PyVal("dict", "", <<>>, <<Entry(Str(k), v)>>)

\* Nested mappings: single-key chains, empty and two-key mappings at any level.
RECURSIVE Mappings(_)
Mappings(depth) ==
    IF depth = 0 THEN Leaves \cup {EmptyDict}
    ELSE Mappings(depth - 1)
         \cup {OneKey(k, v) : k \in Keys, v \in Mappings(depth - 1)}
         \cup {PyVal("dict", "", <<>>, <<Entry(Str("a"), v), Entry(Str("b"), w)>>) :
                  v \in Mappings(depth - 1), w \in Leaves}

X == Scalar("x", "STRING", Str("v"))

Y == Scalar("y", "INT32", PyInt(7))

\* The elements a composite element is built from: scalars, records, arrays
\* whose items carry the array's name, a choice, repeated names two levels down.
Pool ==
    {X, Y,
     Sequence("a", <<>>),
     Sequence("a", <<X>>),
     Sequence("b", <<X, Y>>),
     Element("a", "CHOICE", FALSE, TRUE, None, <<Y>>),
     Array("a", <<Sequence("a", <<X>>), Sequence("a", <<Y>>)>>),
     Sequence("b", <<Sequence("a", <<X>>), Sequence("a", <<>>), Sequence("a", <<Y>>)>>),
     Scalar("e", "ENUMERATION", Str("E")),
     Element("a", "SEQUENCE", FALSE, FALSE, None, <<>>)}

Composites ==
    {Sequence(FIELD_DATA, cs) : cs \in UNION {[1..n -> Pool] : n \in 0..MaxChildren}}

Registries == {<<>>, <<Str("a_0")>>, <<Str("q_0"), Str("q_1")>>}

DataTypes ==
    PassthroughTypes
    \cup {"CORRELATION_ID", "ENUMERATION", "DATE", "DATETIME", "TIME", "SEQUENCE", "CHOICE"}

ScalarValues ==
    {Str("v"), PyInt(7), PyDate(2024, 1, 5), PyDateTime(2024, 11, 5, 9, 30, 0),
     PyTime(9, 5, 0)}

Scalars == {Scalar(n, t, v) : n \in {"x", "y"}, t \in DataTypes, v \in ScalarValues}

NoElement == Scalar("", "", None)

MaxKeys == 2

FragmentKeys == {"a", "b", "c"}

\* Up to MaxKeys distinct keys, in every order.
KeyOrders ==
    {q \in UNION {[1..m -> FragmentKeys] : m \in 0..MaxKeys} :
        \A i \in 1..Len(q) : \A j \in 1..Len(q) : i # j => q[i] # q[j]}

\* The mappings over such keys, of one type and with one value for every key.
Fragments(t, v) ==
    {PyVal(t, "", <<>>, [i \in 1..Len(q) |-> Entry(Str(q[i]), v)]) : q \in KeyOrders}

\* securityData collections of a reference message: entries of different
\* securities, and entries of one security, as a request naming it twice gets.
MaxEntries == 3

EntryPool ==
    {RefGood("A", OneField), RefGood("A", TwoFields), RefBad("B"), RefGood("C", BulkField)}

EntrySeqs == UNION {[1..k -> EntryPool] : k \in 0..MaxEntries}

RefRoots ==
    {Sequence(ResponseTag(REFERENCE_DATA), <<Array(SECURITY_DATA, items)>>) :
        items \in EntrySeqs}

\* fieldExceptions arrays: the fields a request named that the security does
\* not have, each with the category of its error.
MaxExceptions == 2

FieldIds == {"BAD_ONE", "BAD_TWO", "PX_NONE"}

Categories == {"BAD_FLD", "NOT_APPLICABLE"}

ExceptionSeqs ==
    UNION {[1..k -> {FieldException(f, c) : f \in FieldIds, c \in Categories}] :
              k \in 0..MaxExceptions}

RefExceptionRoots ==
    {Sequence(ResponseTag(REFERENCE_DATA),
              <<Array(SECURITY_DATA,
                      <<Sequence(SECURITY_DATA,
                                 <<Scalar(SECURITY, "STRING", Str("A")),
                                   Sequence(FIELD_DATA, OneField),
                                   Array(FIELD_EXCEPTIONS, x)>>)>>)>>) :
        x \in ExceptionSeqs}

HistExceptionRoots ==
    {Sequence(ResponseTag(HISTORICAL_DATA),
              <<HistSecurityData("A", <<HistRowElement(1, 10)>>, x)>>) :
        x \in ExceptionSeqs}

\* The arguments Session is constructed with.
Hosts == {None, Str("localhost"), Str("bbg.example.com"), Str("")}

Ports == {None, PyInt(8194), PyInt(8195), PyInt(0)}

Call(fn, obj, element, dup) == [fn |-> fn, obj |-> obj, element |-> element, dup |-> dup]

NoCall == Call("", None, NoElement, <<>>)

Calls ==
    {Call("_flatten_dict", m, NoElement, <<>>) : m \in Mappings(MaxDepth)}
    \cup {Call("_element_factory", None, e, d) : e \in Composites, d \in Registries}
    \cup {Call("_field_factory", None, e, <<>>) : e \in Scalars}
    \cup {Call("_merge_two_dicts", PyList(<<F1, F2, F3>>), NoElement, <<>>) :
             F1 \in Fragments("dict", PyInt(1)) \cup Fragments("OrderedDict", PyInt(1)),
             F2 \in Fragments("dict", PyInt(2)), F3 \in Fragments("dict", PyInt(3))}
    \cup {Call("_process_ref_data_msg", None, root, <<>>) :
             root \in RefRoots \cup RefExceptionRoots}
    \cup {Call("_process_historical_data_msg", None, root, <<>>) :
             root \in HistExceptionRoots}
    \cup {Call("Session", PyList(<<h, p>>), NoElement, <<>>) : h \in Hosts, p \in Ports}

Pending == Raise("pending")

(***************************************************************************)
(* The state.                                                              *)
(***************************************************************************)
VARIABLES
    request_type,        \* SessionFactory.request_type
    pc,                  \* where process_session is
    ev,                  \* the event nextEvent returned
    idx,                 \* the position of the for loop in ev
    output,              \* process_session's output
    security_responses,  \* process_session's security_responses
    returned,            \* what process_session returned, or None
    raised,              \* the exception that left process_session, or ""
    nevents,             \* events delivered so far
    delivered,           \* the messages folded so far and their events, in order
    api,                 \* the request call made: its RequestType
    args,                \* the arguments of the call
    gpc,                 \* where the call is
    started,             \* Session().start() succeeded
    stops,               \* the calls of session.stop()
    request,             \* the request built, as an outcome
    gout,                \* what the call returned or raised, as an outcome
    call,                \* a function applied on its own: its name and arguments
    result,              \* the outcome of call
    frames               \* the locals of each of two invocations of process_session

driverVars ==
    <<request_type, pc, ev, idx, output, security_responses, returned, raised,
      nevents, delivered>>

getVars == <<api, args, gpc, started, stops, request, gout>>

fnVars == <<call, result>>

frameVars == <<frames>>

vars == <<driverVars, getVars, fnVars, frameVars>>

RequestTypes == {HISTORICAL_DATA, REFERENCE_DATA, INTRADAY_BAR_DATA}

DriverIdle ==
    /\ request_type = ""
    /\ pc = "idle"
    /\ ev = NoEvent
    /\ idx = 1
    /\ output = EmptyDict
    /\ security_responses = <<>>
    /\ returned = None
    /\ raised = ""
    /\ nevents = 0
    /\ delivered = <<>>

GetIdle ==
    /\ api = ""
    /\ args = <<>>
    /\ gpc = "idle"
    /\ started = FALSE
    /\ stops = 0
    /\ request = Pending
    /\ gout = Pending

FnIdle == call = NoCall /\ result = Pending

\* The two invocations of process_session that run side by side.
Invocations == {1, 2}

NoFrame ==
    [pc |-> "idle", request_type |-> "", stream |-> <<>>, n |-> 0, idx |-> 1,
     output |-> EmptyDict, security_responses |-> <<>>, outcome |-> Pending]

FramesIdle == frames = [i \in Invocations |-> NoFrame]

(***************************************************************************)
(* The session driver, one step per message.                               *)
(***************************************************************************)
Init ==
    /\ request_type \in RequestTypes
    /\ pc = "receiving"
    /\ ev = NoEvent
    /\ idx = 1
    /\ output = EmptyDict
    /\ security_responses = <<>>
    /\ returned = None
    /\ raised = ""
    /\ nevents = 0
    /\ delivered = <<>>
    /\ GetIdle
    /\ FnIdle
    /\ FramesIdle

\* ev = self.session.nextEvent(500)
NextEvent ==
    /\ pc = "receiving"
    /\ nevents < MaxEvents
    /\ \E e \in Events(request_type, MaxFragments - Len(delivered)) : ev' = e
    /\ idx' = 1
    /\ pc' = "messages"
    /\ nevents' = nevents + 1
    /\ UNCHANGED <<request_type, output, security_responses, returned, raised, delivered>>
    /\ UNCHANGED <<getVars, fnVars, frameVars>>

\* The loop body's effect on the state: an exception leaves process_session.
Fold(msg, r) ==
    IF Failed(r)
    THEN /\ pc' = "raised"
         /\ raised' = r.exc
         /\ UNCHANGED <<idx, output, security_responses, delivered>>
    ELSE /\ pc' = pc
         /\ raised' = raised
         /\ idx' = idx + 1
         /\ output' = r.val.output
         /\ security_responses' = r.val.security_responses
         /\ delivered' = Append(delivered, [msg |-> msg, event |-> nevents])

\* A loop that would decode every message, whatever its correlation ids.
AdmitsEveryMessage ==
    /\ pc = "messages"
    /\ idx <= Len(ev.msgs)
    /\ Cid \notin ev.msgs[idx].corr
    /\ Fold(ev.msgs[idx], FoldMessage(request_type, ev.msgs[idx], output, security_responses))
    /\ UNCHANGED <<request_type, ev, returned, nevents>>
    /\ UNCHANGED <<getVars, fnVars, frameVars>>

\* for msg in ev: the correlation id is not among the message's.
SkipMessage ==
    /\ pc = "messages"
    /\ idx <= Len(ev.msgs)
    /\ Cid \notin ev.msgs[idx].corr
    /\ idx' = idx + 1
    /\ UNCHANGED <<request_type, pc, ev, output, security_responses, returned, raised,
                   nevents, delivered>>
    /\ UNCHANGED <<getVars, fnVars, frameVars>>

\* for msg in ev: the message carries the correlation id and is folded in.
ProcessMessage ==
    /\ pc = "messages"
    /\ idx <= Len(ev.msgs)
    /\ Cid \in ev.msgs[idx].corr
    /\ Fold(ev.msgs[idx], FoldMessage(request_type, ev.msgs[idx], output, security_responses))
    /\ UNCHANGED <<request_type, ev, returned, nevents>>
    /\ UNCHANGED <<getVars, fnVars, frameVars>>

\* The end of the for loop: break and return output after a RESPONSE event,
\* else the next iteration of the while loop.
EndEvent ==
    /\ pc = "messages"
    /\ idx > Len(ev.msgs)
    /\ IF IsTerminal(ev)
       THEN pc' = "done" /\ returned' = output
       ELSE pc' = "receiving" /\ returned' = returned
    /\ UNCHANGED <<request_type, ev, idx, output, security_responses, raised, nevents,
                   delivered>>
    /\ UNCHANGED <<getVars, fnVars, frameVars>>

Next == NextEvent \/ SkipMessage \/ ProcessMessage \/ EndEvent

Spec == Init /\ [][Next]_vars

\* The same loop over a longer run of fragments, every step of the single
\* thread being taken: nextEvent(500) returns an event while events remain.
NextEventLive ==
    /\ pc = "receiving"
    /\ nevents < MaxEvents
    /\ \E e \in Events(request_type, LiveFragments - Len(delivered)) : ev' = e
    /\ idx' = 1
    /\ pc' = "messages"
    /\ nevents' = nevents + 1
    /\ UNCHANGED <<request_type, output, security_responses, returned, raised, delivered>>
    /\ UNCHANGED <<getVars, fnVars, frameVars>>

NextLive == NextEventLive \/ SkipMessage \/ ProcessMessage \/ EndEvent

\* What every step of NextLive does to the position in the loop: nextEvent
\* returns and the for loop starts, or the for loop moves to the next message,
\* ends, or is left by an exception.  It is enabled exactly when NextLive is.
Progress ==
    \/ /\ pc = "receiving"
       /\ nevents < MaxEvents
       /\ pc' = "messages"
       /\ idx' = 1
    \/ /\ pc = "messages"
       /\ pc' \in {"messages", "receiving", "done", "raised"}
       /\ idx' \in {idx, idx + 1}

\* The thread is never suspended for ever: it has no other thread to wait for.
SpecLive == Init /\ [][NextLive]_vars /\ WF_<<pc, idx>>(Progress)

(***************************************************************************)
(* The request calls IntradayBarRequest.get, HistoricalDataRequest.get and *)
(* ReferenceDataRequest.get, one step per statement that can raise.        *)
(***************************************************************************)
InitGet ==
    /\ api \in RequestTypes
    /\ args \in Args(api)
    /\ gpc = "asserts"
    /\ started = FALSE
    /\ stops = 0
    /\ request = Pending
    /\ gout = Pending
    /\ DriverIdle
    /\ FnIdle
    /\ FramesIdle

\* The exception e leaves the call ("" for none, and the call goes on at next).
Propagate(e, next) ==
    IF e # "" THEN gpc' = "raised" /\ gout' = Raise(e)
    ELSE gpc' = next /\ gout' = gout

\* The first try block: the asserts.
CheckArguments ==
    /\ gpc = "asserts"
    /\ Propagate(Asserts(api, args), "start")
    /\ UNCHANGED <<api, args, started, stops, request>>
    /\ UNCHANGED <<driverVars, fnVars, frameVars>>

\* session = Session().start()
StartSession ==
    /\ gpc = "start"
    /\ \E ok \in BOOLEAN :
          /\ started' = ok
          /\ Propagate(IF ok THEN "" ELSE "ConnectionFailed", "create")
    /\ UNCHANGED <<api, args, stops, request>>
    /\ UNCHANGED <<driverVars, fnVars, frameVars>>

\* request = Request(session, ...).create(): openService, getService and
\* createRequest raise what blpapi raises.
CreateRequest ==
    /\ gpc = "create"
    /\ \E e \in {"", "NotFoundException", "UnknownErrorException"} : Propagate(e, "fill")
    /\ UNCHANGED <<api, args, started, stops, request>>
    /\ UNCHANGED <<driverVars, fnVars, frameVars>>

\* request.append(...), request.set(...), the overrides.
FillRequest ==
    /\ gpc = "fill"
    /\ \E e \in {"", "InvalidConversionException"} :
          /\ request' = IF e = "" THEN FilledRequest(api, args) ELSE Raise(e)
          /\ Propagate(request'.exc, "send")
    /\ UNCHANGED <<api, args, started, stops>>
    /\ UNCHANGED <<driverVars, fnVars, frameVars>>

\* cid = session.sendRequest(request)
SendRequest ==
    /\ gpc = "send"
    /\ \E e \in {"", "InvalidStateException"} : Propagate(e, "process")
    /\ UNCHANGED <<api, args, started, stops, request>>
    /\ UNCHANGED <<driverVars, fnVars, frameVars>>

\* return SessionFactory(session, cid, ...).process_session(), inside the try
\* whose finally stops the session.
ProcessSession ==
    /\ gpc = "process"
    /\ \E stream \in Streams(api) :
          gout' = process_session(api, stream, Folded(EmptyDict, <<>>))
    /\ gpc' = "finally"
    /\ UNCHANGED <<api, args, started, stops, request>>
    /\ UNCHANGED <<driverVars, fnVars, frameVars>>

\* finally: session.stop(), then the return or the exception goes on.
Finally ==
    /\ gpc = "finally"
    /\ stops' = stops + 1
    /\ gpc' = IF Failed(gout) THEN "raised" ELSE "returned"
    /\ UNCHANGED <<api, args, started, request, gout>>
    /\ UNCHANGED <<driverVars, fnVars, frameVars>>

NextGet ==
    \/ CheckArguments
    \/ StartSession
    \/ CreateRequest
    \/ FillRequest
    \/ SendRequest
    \/ ProcessSession
    \/ Finally

SpecGet == InitGet /\ [][NextGet]_vars

(***************************************************************************)
(* The functions applied on their own, each to the inputs above.           *)
(***************************************************************************)
InitFn ==
    /\ call \in Calls
    /\ result = Pending
    /\ DriverIdle
    /\ GetIdle
    /\ FramesIdle

ApplyFlattenDict ==
    /\ call.fn = "_flatten_dict"
    /\ result = Pending
    /\ result' = Ok(_flatten_dict(call.obj))
    /\ UNCHANGED <<call, driverVars, getVars, frameVars>>

ApplyElementFactory ==
    /\ call.fn = "_element_factory"
    /\ result = Pending
    /\ result' = _element_factory(call.element, call.dup, None)
    /\ UNCHANGED <<call, driverVars, getVars, frameVars>>

ApplyFieldFactory ==
    /\ call.fn = "_field_factory"
    /\ result = Pending
    /\ result' = _field_factory(call.element)
    /\ UNCHANGED <<call, driverVars, getVars, frameVars>>

\* The three fragments of call.obj merged as process_session merges them,
\* the first with the second and the outcome with the third.
MergedInTurn(first) == MergeObjects(first.heap, first.ref, 3)

ApplyMergeTwoDicts ==
    /\ call.fn = "_merge_two_dicts"
    /\ result = Pending
    /\ result' = Ok(MergedInTurn(MergeObjects(ListItems(call.obj), 1, 2)))
    /\ UNCHANGED <<call, driverVars, getVars, frameVars>>

\* The reference decoder on the message whose root element is call.element.
ApplyRefDataMsg ==
    /\ call.fn = "_process_ref_data_msg"
    /\ result = Pending
    /\ result' = _process_ref_data_msg(Message({Cid}, call.element.name,
                                                call.element.children))
    /\ UNCHANGED <<call, driverVars, getVars, frameVars>>

\* The historical decoder on the message whose root element is call.element.
ApplyHistoricalDataMsg ==
    /\ call.fn = "_process_historical_data_msg"
    /\ result = Pending
    /\ result' = _process_historical_data_msg(Message({Cid}, call.element.name,
                                                       call.element.children))
    /\ UNCHANGED <<call, driverVars, getVars, frameVars>>

\* Session(host, port) with the two arguments of call.obj.
ApplySession ==
    /\ call.fn = "Session"
    /\ result = Pending
    /\ result' = Ok(Session(ListItems(call.obj)[1], ListItems(call.obj)[2]))
    /\ UNCHANGED <<call, driverVars, getVars, frameVars>>

NextFn ==
    \/ ApplyFlattenDict
    \/ ApplyElementFactory
    \/ ApplyFieldFactory
    \/ ApplyMergeTwoDicts
    \/ ApplyRefDataMsg
    \/ ApplyHistoricalDataMsg
    \/ ApplySession

SpecFn == InitFn /\ [][NextFn]_vars

(***************************************************************************)
(* Two invocations of process_session, each on its own session, their      *)
(* steps interleaved in every order.                                        *)
(***************************************************************************)
\* The messages the two sessions deliver: fragments of one security or of
\* one bar series, so that the invocations work on the same keys.
PairMessages(kind) ==
    {Message({Cid}, ResponseTag(kind), c) :
        c \in CASE kind = HISTORICAL_DATA ->
                     {<<HistSecurityData("A", <<HistRowElement(1, 10), HistRowElement(2, 11)>>,
                                         <<>>)>>,
                      <<HistSecurityData("A", <<HistRowElement(3, 12)>>, <<>>)>>}
                [] kind = REFERENCE_DATA ->
                     {<<Array(SECURITY_DATA, <<RefGood("A", OneField)>>)>>,
                      <<Array(SECURITY_DATA, <<RefPartial("A")>>)>>}
                [] OTHER ->
                     {<<BarData(<<BarTick(30, 1), BarTick(31, 2)>>)>>,
                      <<BarData(<<BarTick(32, 3)>>)>>}}

PairStreams(kind) ==
    {<<Event("RESPONSE", <<m1, m2>>)>> :
        m1 \in PairMessages(kind), m2 \in PairMessages(kind)}
    \cup {<<Event("PARTIAL_RESPONSE", <<m1, Foreign(kind)>>),
            Event("RESPONSE", <<m2>>)>> :
             m1 \in PairMessages(kind), m2 \in PairMessages(kind)}

\* output = {} and security_responses = {} at the start of process_session.
Called(kind, stream) ==
    [pc |-> "receiving", request_type |-> kind, stream |-> stream, n |-> 0,
     idx |-> 1, output |-> EmptyDict, security_responses |-> <<>>, outcome |-> Pending]

\* A fragment history kept in one place for every invocation.
SharedHistory(fs, i) == fs[1].security_responses

\* security_responses is a local of the invocation.
History(fs, i) == fs[i].security_responses

Received(f) == [f EXCEPT !.pc = "messages", !.n = @ + 1, !.idx = 1]

Stepped(f, r) ==
    IF Failed(r) THEN [f EXCEPT !.pc = "raised", !.outcome = r]
    ELSE [f EXCEPT !.idx = @ + 1, !.output = r.val.output,
                   !.security_responses = r.val.security_responses]

MessageStep(fs, i, f, msg) ==
    IF Cid \in msg.corr
    THEN Stepped(f, FoldMessage(f.request_type, msg, f.output, History(fs, i)))
    ELSE [f EXCEPT !.idx = @ + 1]

EventEnded(f) ==
    IF IsTerminal(f.stream[f.n])
    THEN [f EXCEPT !.pc = "done", !.outcome = Ok(f.output)]
    ELSE [f EXCEPT !.pc = "receiving"]

InitPair ==
    /\ FramesIdle
    /\ DriverIdle
    /\ GetIdle
    /\ FnIdle

\* SessionFactory(session, cid, request_type).process_session() is called.
InvokeLoop ==
    /\ \E i \in Invocations :
          /\ frames[i].pc = "idle"
          /\ \E t \in RequestTypes : \E s \in PairStreams(t) :
                frames' = [frames EXCEPT ![i] = Called(t, s)]
    /\ UNCHANGED <<driverVars, getVars, fnVars>>

\* ev = self.session.nextEvent(500) in one of the invocations.
LoopNextEvent ==
    /\ \E i \in Invocations :
          /\ frames[i].pc = "receiving"
          /\ frames[i].n < Len(frames[i].stream)
          /\ frames' = [frames EXCEPT ![i] = Received(frames[i])]
    /\ UNCHANGED <<driverVars, getVars, fnVars>>

\* One iteration of for msg in ev in one of the invocations.
LoopMessage ==
    /\ \E i \in Invocations :
          /\ frames[i].pc = "messages"
          /\ frames[i].idx <= Len(frames[i].stream[frames[i].n].msgs)
          /\ frames' = [frames EXCEPT ![i] =
                           MessageStep(frames, i, frames[i],
                                       frames[i].stream[frames[i].n].msgs[frames[i].idx])]
    /\ UNCHANGED <<driverVars, getVars, fnVars>>

\* The end of the for loop in one of the invocations: break and return, or
\* the next iteration of the while loop.
LoopEndEvent ==
    /\ \E i \in Invocations :
          /\ frames[i].pc = "messages"
          /\ frames[i].idx > Len(frames[i].stream[frames[i].n].msgs)
          /\ frames' = [frames EXCEPT ![i] = EventEnded(frames[i])]
    /\ UNCHANGED <<driverVars, getVars, fnVars>>

NextPair == InvokeLoop \/ LoopNextEvent \/ LoopMessage \/ LoopEndEvent

SpecPair == InitPair /\ [][NextPair]_vars

(***************************************************************************)
(* Properties of process_session.                                          *)
(***************************************************************************)
\* The mapping of an element's sub elements, name to value, in their order.
ElementsMapping(elements, t) ==
    PyVal(t, "", <<>>,
          [i \in 1..Len(elements) |-> Entry(Str(elements[i].name), elements[i].value)])

DeliveredMessages == [i \in 1..Len(delivered) |-> delivered[i].msg]

InSuccessiveEvents ==
    \A i \in 1..Len(delivered) : \A j \in 1..Len(delivered) :
        i < j => delivered[i].event < delivered[j].event

OfResponseType ==
    \A i \in 1..Len(delivered) : delivered[i].msg.messageType = ResponseTag(request_type)

\* A historical message with the data of one security and no error.
IsHistoricalFragment(m) ==
    /\ ~hasElement(m.root, RESPONSE_ERROR)
    /\ hasElement(m.root, SECURITY_DATA)
    /\ hasElement(getElement(m.root, SECURITY_DATA), SECURITY)
    /\ ~hasElement(getElement(m.root, SECURITY_DATA), SECURITY_ERROR)
    /\ hasElement(getElement(m.root, SECURITY_DATA), FIELD_DATA)

FragmentSecurity(m) == getElement(getElement(m.root, SECURITY_DATA), SECURITY).value

FragmentRows(m) == getElement(getElement(m.root, SECURITY_DATA), FIELD_DATA).children

RowDate(row) == getElement(row, "date").value

RowFields(row) ==
    ElementsMapping(SelectSeq(row.children, LAMBDA e : e.name # "date"), "dict")

FragmentDates(m) == {RowDate(FragmentRows(m)[k]) : k \in 1..Len(FragmentRows(m))}

\* Several fragments of one security, one per event, with pairwise distinct dates.
SplitHistoricalResponse ==
    /\ request_type = HISTORICAL_DATA
    /\ pc = "done"
    /\ Len(delivered) >= 2
    /\ InSuccessiveEvents
    /\ OfResponseType
    /\ \A i \in 1..Len(delivered) :
          /\ IsHistoricalFragment(delivered[i].msg)
          /\ FragmentSecurity(delivered[i].msg) = FragmentSecurity(delivered[1].msg)
          /\ Cardinality(FragmentDates(delivered[i].msg)) = Len(FragmentRows(delivered[i].msg))
    /\ \A i \in 1..Len(delivered) : \A j \in 1..Len(delivered) :
          i # j => FragmentDates(delivered[i].msg) \cap FragmentDates(delivered[j].msg) = {}

SecurityDataOf(out, security) == GetItem(GetItem(out, security), Str("security_data"))

\* C1: a historical response for one security split into several fragments with
\* pairwise distinct dates returns, under that security, a security_data
\* mapping with every date of every fragment, each holding its row's fields.
C1_EveryDateOfEveryFragment ==
    SplitHistoricalResponse =>
        /\ HasKey(returned, FragmentSecurity(delivered[1].msg))
        /\ KeySet(SecurityDataOf(returned, FragmentSecurity(delivered[1].msg)))
               = UNION {FragmentDates(delivered[i].msg) : i \in 1..Len(delivered)}
        /\ \A i \in 1..Len(delivered) : \A k \in 1..Len(FragmentRows(delivered[i].msg)) :
              GetItem(SecurityDataOf(returned, FragmentSecurity(delivered[1].msg)),
                      RowDate(FragmentRows(delivered[i].msg)[k]))
                  = RowFields(FragmentRows(delivered[i].msg)[k])

\* C2: merging is monotonic: a key the accumulated output holds is held by
\* every later state of the output, the returned one included.
C2_KeysAreNeverDiscarded == [][KeySet(output) \subseteq KeySet(output')]_vars

MatchingOf(msgs) == SelectSeq(msgs, LAMBDA m : Cid \in m.corr)

\* The last k messages folded are the k given ones, folded during the current event.
FoldedLast(msgs) ==
    /\ Len(msgs) <= Len(delivered)
    /\ \A j \in 1..Len(msgs) :
          delivered[Len(delivered) - Len(msgs) + j] = [msg |-> msgs[j], event |-> nevents]

\* C4: process_session returns only after an event of type RESPONSE, and then
\* every message of that event with the correlation id has been folded into
\* the returned output.
C4_ReturnsAfterTerminalEventOnly ==
    pc = "done" =>
        /\ ev.type = "RESPONSE"
        /\ FoldedLast(MatchingOf(ev.msgs))
        /\ Ok(returned) = WhileTrue(request_type, <<Event("RESPONSE", <<>>)>>,
                                    ForMessages(request_type, DeliveredMessages,
                                                Folded(EmptyDict, <<>>)))

C4_ReturnedAfterPartialResponses ==
    /\ pc = "done"
    /\ nevents = MaxEvents
    /\ Len(MatchingOf(ev.msgs)) >= 1
    /\ Len(MatchingOf(ev.msgs)) < Len(ev.msgs)
    /\ Len(delivered) > Len(MatchingOf(ev.msgs))

HasContainer(m) == hasElement(m.root, SECURITY_DATA) \/ hasElement(m.root, BAR_DATA)

ShortCircuited(m) ==
    msg_processes(request_type, m)
        = Returned(None, ElementsMapping(getElement(m.root, RESPONSE_ERROR).children, "dict"))

\* C5: each decoder returns (None, the mapping of the responseError's elements)
\* for a message with a responseError element, with or without its container;
\* no message with a responseError makes the decoder raise.
C5_ResponseErrorShortCircuits ==
    /\ \A i \in 1..Len(ev.msgs) :
          hasElement(ev.msgs[i].root, RESPONSE_ERROR) => ShortCircuited(ev.msgs[i])
    /\ pc = "raised" => ~hasElement(ev.msgs[idx].root, RESPONSE_ERROR)

C5_ErrorWithAndWithoutContainer ==
    /\ Len(delivered) = 2
    /\ hasElement(delivered[1].msg.root, RESPONSE_ERROR)
    /\ hasElement(delivered[2].msg.root, RESPONSE_ERROR)
    /\ ~HasContainer(delivered[1].msg)
    /\ HasContainer(delivered[2].msg)
    /\ output = ElementsMapping(getElement(delivered[2].msg.root, RESPONSE_ERROR).children,
                                "dict")

IsReferenceData(m) ==
    ~hasElement(m.root, RESPONSE_ERROR) /\ hasElement(m.root, SECURITY_DATA)

RECURSIVE ReferenceItems(_)
ReferenceItems(msgs) ==
    IF msgs = <<>> THEN <<>>
    ELSE getElement(Head(msgs).root, SECURITY_DATA).children \o ReferenceItems(Tail(msgs))

ItemSecurity(item) == getElement(item, SECURITY).value

\* Several securities, some erroring, together in one message or each in its own.
SeveralSecurities(items) ==
    /\ Len(items) >= 2
    /\ \A i \in 1..Len(items) : \A j \in 1..Len(items) :
          i # j => ItemSecurity(items[i]) # ItemSecurity(items[j])
    /\ \E i \in 1..Len(items) : hasElement(items[i], SECURITY_ERROR)
    /\ \/ Len(delivered) = 1
       \/ Len(delivered) = Len(items)

ReferenceResponse ==
    /\ request_type = REFERENCE_DATA
    /\ pc = "done"
    /\ \A i \in 1..Len(delivered) : IsReferenceData(delivered[i].msg)
    /\ SeveralSecurities(ReferenceItems(DeliveredMessages))

NonEmpty(d) == IsDict(d) /\ DictLen(d) > 0

ItemOutcome(item, r) ==
    IF hasElement(item, SECURITY_ERROR)
    THEN /\ GetItem(r, Str("security_data")) = EmptyDict
         /\ NonEmpty(GetItem(r, Str("security_errors")))
    ELSE /\ NonEmpty(GetItem(r, Str("security_data")))
         /\ GetItem(r, Str("security_errors")) = EmptyDict

OnePerSecurity(items, out) ==
    /\ KeySet(out) = {ItemSecurity(items[i]) : i \in 1..Len(items)}
    /\ DictLen(out) = Len(items)
    /\ \A i \in 1..Len(items) : ItemOutcome(items[i], GetItem(out, ItemSecurity(items[i])))

\* C6: a reference response over several securities, some with a security
\* error, delivered in one message or one message per security, returns one key
\* per security: data and no errors for a valid one, errors and no data for an
\* erroring one.
C6_ErroringSecurityLeavesSiblings ==
    ReferenceResponse => OnePerSecurity(ReferenceItems(DeliveredMessages), returned)

C6_OneMessagePerSecurity ==
    /\ ReferenceResponse
    /\ Len(delivered) = 2
    /\ hasElement(ReferenceItems(DeliveredMessages)[2], SECURITY_ERROR)
    /\ ~hasElement(ReferenceItems(DeliveredMessages)[1], SECURITY_ERROR)

IsBarMessage(m) ==
    /\ ~hasElement(m.root, RESPONSE_ERROR)
    /\ hasElement(m.root, BAR_DATA)
    /\ hasElement(getElement(m.root, BAR_DATA), BAR_TICK_DATA)

RECURSIVE BarTicksOf(_)
BarTicksOf(msgs) ==
    IF msgs = <<>> THEN <<>>
    ELSE getElement(getElement(Head(msgs).root, BAR_DATA), BAR_TICK_DATA).children
             \o BarTicksOf(Tail(msgs))

TickTime(tick) == getElement(tick, "time").value

\* Bar ticks with pairwise distinct times, in the messages of the intraday response.
IntradayResponse ==
    /\ request_type = INTRADAY_BAR_DATA
    /\ pc = "done"
    /\ Len(delivered) >= 1
    /\ OfResponseType
    /\ \A i \in 1..Len(delivered) : IsBarMessage(delivered[i].msg)
    /\ \A i \in 1..Len(BarTicksOf(DeliveredMessages)) :
          \A j \in 1..Len(BarTicksOf(DeliveredMessages)) :
             i # j => TickTime(BarTicksOf(DeliveredMessages)[i])
                          # TickTime(BarTicksOf(DeliveredMessages)[j])

TicksInArrivalOrder(ticks, out) ==
    /\ KeySeq(out) = [i \in 1..Len(ticks) |-> TickTime(ticks[i])]
    /\ \A i \in 1..Len(ticks) :
          GetItem(out, TickTime(ticks[i])) = ElementsMapping(ticks[i].children, "dict")

\* C7: the bar ticks of an intraday response, with pairwise distinct times and
\* delivered in one or more messages of the response over one or more events,
\* are returned as a mapping with one key per tick, the tick's time, in the
\* order the ticks arrived, each key holding its tick's elements.
C7_TicksKeyedByTimeInArrivalOrder ==
    IntradayResponse => TicksInArrivalOrder(BarTicksOf(DeliveredMessages), returned)

C7_TicksOverTwoEvents ==
    /\ IntradayResponse
    /\ Len(delivered) = 2
    /\ delivered[1].event < delivered[2].event
    /\ Len(BarTicksOf(DeliveredMessages)) = 3
    /\ TickTime(BarTicksOf(DeliveredMessages)[3]) = PyDateTime(2024, 1, 2, 9, 29, 0)

(***************************************************************************)
(* Properties of the request calls.                                        *)
(***************************************************************************)
\* C3: in each of the three get calls, once the session has started,
\* session.stop() has been called exactly once when the call returns or raises.
C3_StartedSessionStoppedOnce ==
    (gpc \in {"returned", "raised"} /\ started) => stops = 1

(***************************************************************************)
(* Properties of the functions.                                            *)
(***************************************************************************)
\* C8: flattening is idempotent: flattening the result of _flatten_dict gives
\* that result again.
C8_FlattenIsIdempotent ==
    (call.fn = "_flatten_dict" /\ result # Pending) =>
        _flatten_dict(result.val) = result.val

CompositeChildren(element) ==
    SelectSeq(element.children, LAMBDA e : e.datatype \in BBG_SEQUENCES)

ScalarChildren(element) ==
    SelectSeq(element.children, LAMBDA e : e.datatype \notin BBG_SEQUENCES)

DictEntries(d) == SelectSeq(d.kv, LAMBDA e : IsDict(e.val))

\* The keys a composite element of this name may be stored under, with n
\* names registered.
KeysFor(name, n) == {Str(name)} \cup {Str(name \o "_" \o ToString(k)) : k \in 0..n}

\* An element _element_factory decodes without raising.
RECURSIVE Decodable(_)
Decodable(element) ==
    /\ element.valid
    /\ IF element.datatype \in BBG_SEQUENCES
       THEN /\ ~Failed(_get_bbg_iterator(element))
            /\ \A j \in 1..Len(element.children) : Decodable(element.children[j])
       ELSE element.datatype \in PassthroughTypes

\* d has one mapping per composite child of element, in their order, each under
\* a key made from the child's name and each holding the child's own content.
RECURSIVE EachHoldsItsOwn(_, _, _)
EachHoldsItsOwn(element, d, n) ==
    /\ IsDict(d)
    /\ Len(DictEntries(d)) = Len(CompositeChildren(element))
    /\ \A j \in 1..Len(CompositeChildren(element)) :
          /\ DictEntries(d)[j].k \in KeysFor(CompositeChildren(element)[j].name, n)
          /\ EachHoldsItsOwn(CompositeChildren(element)[j], DictEntries(d)[j].val, n)
    /\ \A j \in 1..Len(ScalarChildren(element)) :
          /\ HasKey(d, Str(ScalarChildren(element)[j].name))
          /\ GetItem(d, Str(ScalarChildren(element)[j].name)) = ScalarChildren(element)[j].value

\* C9: decoding a composite element gives each of its composite children, at
\* every depth and for any prior registry, a key of its own holding the decoded
\* children of that child: same-named siblings do not overwrite each other.
C9_SameNamedSiblingsKeepTheirKeys ==
    (call.fn = "_element_factory" /\ result # Pending /\ Decodable(call.element)) =>
        /\ ~Failed(result)
        /\ EachHoldsItsOwn(call.element, GetItem(result.val.results, Str(call.element.name)),
                           Len(result.val.dup))

C9_ThreeSiblingsAndNestedOnes ==
    /\ call.fn = "_element_factory"
    /\ result # Pending
    /\ Decodable(call.element)
    /\ call.dup = <<Str("a_0")>>
    /\ Len(call.element.children) = 3
    /\ call.element.children[1] = Sequence("a", <<X>>)
    /\ call.element.children[2] = Array("a", <<Sequence("a", <<X>>), Sequence("a", <<Y>>)>>)
    /\ call.element.children[3] = Sequence("a", <<X>>)
    /\ Len(result.val.dup) = 4

\* C10: _field_factory raises NotImplementedError for a scalar element of data
\* type correlation id or enumeration, and returns nothing.
C10_UnsupportedKindsRaiseNotImplemented ==
    (/\ call.fn = "_field_factory"
     /\ call.element.datatype \in {"CORRELATION_ID", "ENUMERATION"}
     /\ result # Pending) => result = Raise("NotImplementedError")

\* The value the last of the fragments holding k has for it.
Newest(k, F1, F2, F3) ==
    IF HasKey(F3, k) THEN GetItem(F3, k)
    ELSE IF HasKey(F2, k) THEN GetItem(F2, k)
    ELSE GetItem(F1, k)

MergeLaws(F1, F2, F3, merged) ==
    /\ merged = _merge_two_dicts(F1, _merge_two_dicts(F2, F3))
    /\ KeySet(merged) = KeySet(F1) \cup KeySet(F2) \cup KeySet(F3)
    /\ DictLen(merged) = Cardinality(KeySet(merged))
    /\ \A k \in KeySet(merged) : GetItem(merged, k) = Newest(k, F1, F2, F3)

\* C11: merging F1 with F2 and the outcome with F3 gives what merging F1 with
\* the merge of F2 and F3 gives; its keys are the union of the fragments'
\* keys, each with the value of the last fragment holding it; the fragments
\* themselves are as they were.
C11_MergeIsAssociativeNewestWins ==
    (call.fn = "_merge_two_dicts" /\ result # Pending) =>
        /\ MergeLaws(ListItems(call.obj)[1], ListItems(call.obj)[2], ListItems(call.obj)[3],
                     result.val.heap[result.val.ref])
        /\ SubSeq(result.val.heap, 1, 3) = ListItems(call.obj)
        /\ result.val.ref \notin 1..3

C11_CollidingAndNewKeys ==
    /\ call.fn = "_merge_two_dicts"
    /\ result # Pending
    /\ KeySeq(ListItems(call.obj)[1]) = <<Str("a"), Str("b")>>
    /\ KeySeq(ListItems(call.obj)[2]) = <<Str("b"), Str("c")>>
    /\ KeySeq(ListItems(call.obj)[3]) = <<Str("c"), Str("a")>>
    /\ KeySeq(result.val.heap[result.val.ref]) = <<Str("a"), Str("b"), Str("c")>>

\* The top-level container the decoder of the request type reads.
ExpectedContainer ==
    IF request_type = INTRADAY_BAR_DATA THEN BAR_DATA ELSE SECURITY_DATA

\* A message with neither a responseError nor the container of its decoder.
LacksContainer(m) ==
    ~hasElement(m.root, RESPONSE_ERROR) /\ ~hasElement(m.root, ExpectedContainer)

\* C12: a message with no responseError and without the container of its
\* decoder makes the decoder raise the not-found error; process_session raises
\* it to its caller and returns nothing, and never folds such a message.
C12_MissingContainerIsNotFound ==
    /\ \A i \in 1..Len(ev.msgs) :
          LacksContainer(ev.msgs[i]) =>
              msg_processes(request_type, ev.msgs[i]) = Raise("NotFoundException")
    /\ \A i \in 1..Len(delivered) : ~LacksContainer(delivered[i].msg)
    /\ (pc \in {"messages", "done"} /\ idx > 1) =>
          \A i \in 1..(idx - 1) : Cid \in ev.msgs[i].corr => ~LacksContainer(ev.msgs[i])
    /\ (pc = "raised" /\ LacksContainer(ev.msgs[idx])) =>
          raised = "NotFoundException" /\ returned = None

C12_RaisedAfterAFoldedMessage ==
    /\ pc = "raised"
    /\ LacksContainer(ev.msgs[idx])
    /\ raised = "NotFoundException"
    /\ ev.type = "RESPONSE"
    /\ Len(delivered) = 1
    /\ DictLen(output) > 0

(***************************************************************************)
(* Properties of the request calls, continued.                             *)
(***************************************************************************)
\* What the override of field id k carries for the caller's value v.
Transmitted(k, v) ==
    IF k = Str("CURVE_DATE") THEN Str(FormatParts(v, FmtCompact)) ELSE v

\* C13: in ReferenceDataRequest.get every entry of overrides gives one
\* override element with its field id and the caller's value, unchanged unless
\* the field id is CURVE_DATE, whose value is rendered as YYYYMMDD.
C13_OverridesCarryCallersValues ==
    (api = REFERENCE_DATA /\ ~Failed(request) /\ IsDict(args.overrides)) =>
        /\ Len(request.val.overrides) = DictLen(args.overrides)
        /\ \A i \in 1..DictLen(args.overrides) :
              /\ request.val.overrides[i].fieldId = args.overrides.kv[i].k
              /\ request.val.overrides[i].value
                     = Transmitted(args.overrides.kv[i].k, args.overrides.kv[i].val)

ValidIntradayCall ==
    /\ api = INTRADAY_BAR_DATA
    /\ args.ticker.t = "str"
    /\ InStrings(args.event_type, {"TRADE", "BID", "ASK", "BEST_BID", "BEST_ASK"})
    /\ args.interval.t = "int"
    /\ args.start_date.t = "datetime"
    /\ args.end_date.t = "datetime"
    /\ args.max_data_points.t = "int"

\* C14: IntradayBarRequest.get with a string ticker, an event type of the five,
\* an integer interval, datetime start and end and an integer max_data_points
\* passes the parameter validation and goes on to start a session: it does
\* not raise before the session is started unless the connection fails.
C14_ValidIntradayCallPassesValidation ==
    ValidIntradayCall =>
        ((gpc = "raised" /\ ~started) => gout.exc = "ConnectionFailed")

(***************************************************************************)
(* Properties of the functions, continued.                                 *)
(***************************************************************************)
\* d has one key per child of element, in their order, each the child's name
\* or that name with an index suffix.
OneKeyPerChild(element, d, n) ==
    /\ IsDict(d)
    /\ DictLen(d) = Len(element.children)
    /\ \A j \in 1..DictLen(d) : d.kv[j].k \in KeysFor(element.children[j].name, n)

\* C15: a level of the mapping _element_factory gives has one key for each of
\* the n child elements decoded into it, composite or scalar: a repeated name
\* gets an index suffix and overwrites nothing.
C15_RepeatedNamesNeverOverwrite ==
    (call.fn = "_element_factory" /\ result # Pending /\ Decodable(call.element)) =>
        /\ ~Failed(result)
        /\ OneKeyPerChild(call.element, GetItem(result.val.results, Str(call.element.name)),
                          Len(result.val.dup))

(***************************************************************************)
(* Properties of process_session, continued.                               *)
(***************************************************************************)
\* The output after a fragment (key, fragment) where later fragments of a key
\* are merged into the value accumulated for it and the first is set directly.
MergedIfSeen(key, fragment, seen) ==
    IF Truthy(key)
    THEN IF seen /\ HasKey(output, key)
         THEN SetItem(output, key, DictUpdate(GetItem(output, key), fragment.kv))
         ELSE SetItem(output, key, fragment)
    ELSE IF seen THEN DictUpdate(output, fragment.kv) ELSE fragment

FragmentFolded(decoded) ==
    MergedIfSeen(decoded.val.security, decoded.val.results,
                 decoded.val.security \in DOMAIN security_responses)

\* C16: every step of process_session that folds a message sets its fragment
\* directly when it is the first for its key and merges it into the value
\* accumulated for the key when it is a later one, whatever the message types
\* of the fragments.
C16_LaterFragmentsAreMerged ==
    [][(pc = "messages" /\ Len(delivered') = Len(delivered) + 1) =>
          output' = FragmentFolded(msg_processes(request_type, ev.msgs[idx]))]_vars

\* C17: a message without the expected correlation id is not decoded: the
\* step over it changes neither the output nor the fragment history nor the
\* messages folded, and raises nothing; only messages with the id are folded.
C17_OnlyMatchingMessagesAreFolded ==
    /\ [][(pc = "messages" /\ idx <= Len(ev.msgs) /\ Cid \notin ev.msgs[idx].corr) =>
             /\ output' = output
             /\ security_responses' = security_responses
             /\ delivered' = delivered
             /\ raised' = raised
             /\ pc' = pc
             /\ idx' = idx + 1]_vars
    /\ [](\A i \in 1..Len(delivered) : Cid \in delivered[i].msg.corr)

C17_SkippedBetweenFoldedMessages ==
    /\ pc = "done"
    /\ nevents = 2
    /\ Len(ev.msgs) = 2
    /\ Cid \notin ev.msgs[1].corr
    /\ Cid \in ev.msgs[2].corr
    /\ Len(delivered) = 2
    /\ delivered[1].event = 1
    /\ delivered[2].msg = ev.msgs[2]

\* C18: when no decoder raises and an event of the terminal type is
\* delivered, process_session eventually returns the accumulated output.
TerminalDelivered == pc = "messages" /\ IsTerminal(ev)

DecoderRaised ==
    /\ pc = "raised"
    /\ Failed(msg_processes(request_type, ev.msgs[idx]))

C18_LoopRunsToCompletion ==
    (<>TerminalDelivered /\ []~DecoderRaised) => <>(pc = "done" /\ returned = output)

\* C19: the reference decoder's result for a securityData collection: for
\* one entry the entry's security and its result; for more than one, None and
\* a mapping with one key per distinct security of the collection, each holding
\* the result of the last entry of that security.
DecodedEntries == getElement(call.element, SECURITY_DATA).children

EntrySecurity(item) == RefItem(item).val.security

LastEntryOf(items, security) ==
    items[CHOOSE i \in 1..Len(items) :
              /\ EntrySecurity(items[i]) = security
              /\ \A j \in (i + 1)..Len(items) : EntrySecurity(items[j]) # security]

RefDecoded == call.fn = "_process_ref_data_msg" /\ result.exc # "pending"

OneEntryIsFlat(items) ==
    Len(items) = 1 => result = RefItem(items[1])

C19_ShapeFollowsCardinality ==
    RefDecoded =>
        /\ ~Failed(result)
        /\ OneEntryIsFlat(DecodedEntries)
        /\ Len(DecodedEntries) > 1 =>
              /\ result.val.security = None
              /\ KeySet(result.val.results) =
                    {EntrySecurity(DecodedEntries[i]) : i \in 1..Len(DecodedEntries)}
              /\ \A k \in KeySet(result.val.results) :
                    GetItem(result.val.results, k) =
                        RefItem(LastEntryOf(DecodedEntries, k)).val.results

\* C19 as stated: for more than one entry, one key per entry, each entry's
\* security holding that entry's result.
C19_OneKeyPerEntry ==
    RefDecoded =>
        /\ ~Failed(result)
        /\ OneEntryIsFlat(DecodedEntries)
        /\ Len(DecodedEntries) > 1 =>
              /\ result.val.security = None
              /\ DictLen(result.val.results) = Len(DecodedEntries)
              /\ \A i \in 1..Len(DecodedEntries) :
                    GetItem(result.val.results, EntrySecurity(DecodedEntries[i])) =
                        RefItem(DecodedEntries[i]).val.results

C19_ThreeEntriesOfTwoSecurities ==
    /\ RefDecoded
    /\ Len(DecodedEntries) = 3
    /\ result.val.security = None
    /\ DictLen(result.val.results) = 2
    /\ EntrySecurity(DecodedEntries[1]) = EntrySecurity(DecodedEntries[3])
    /\ RefItem(DecodedEntries[1]) # RefItem(DecodedEntries[3])

\* C20: in a historical request whose folded messages carry no response
\* error, every entry of the output has exactly the keys security_data,
\* security_errors and field_exceptions, and an entry with security errors has
\* no security data and no field exceptions.
PerSecurityKeys == {Str("security_data"), Str("security_errors"), Str("field_exceptions")}

NoResponseErrorFolded ==
    \A i \in 1..Len(delivered) : ~hasElement(delivered[i].msg.root, RESPONSE_ERROR)

ErrorOnlyOrData(entry) ==
    /\ IsDict(entry)
    /\ KeySet(entry) = PerSecurityKeys
    /\ DictLen(entry) = 3
    /\ DictLen(GetItem(entry, Str("security_errors"))) > 0 =>
          /\ DictLen(GetItem(entry, Str("security_data"))) = 0
          /\ DictLen(GetItem(entry, Str("field_exceptions"))) = 0

C20_EntriesKeepTheirThreeKeys ==
    (request_type = HISTORICAL_DATA /\ NoResponseErrorFolded) =>
        \A k \in KeySet(output) : ErrorOnlyOrData(GetItem(output, k))

C20_ErrorFoldedOverData ==
    /\ request_type = HISTORICAL_DATA
    /\ Len(delivered) = 2
    /\ NoResponseErrorFolded
    /\ delivered[1].msg.messageType = delivered[2].msg.messageType
    /\ ~hasElement(getElement(delivered[1].msg.root, SECURITY_DATA), SECURITY_ERROR)
    /\ hasElement(getElement(delivered[2].msg.root, SECURITY_DATA), SECURITY_ERROR)
    /\ KeySet(output) = {Str("A")}
    /\ DictLen(GetItem(GetItem(output, Str("A")), Str("security_errors"))) > 0

\* C21: every field id of a security's fieldExceptions array is mentioned in
\* the security's field_exceptions mapping, and its security_data is what
\* the fieldData alone decodes to.
OneSecurityDecoded ==
    /\ result.exc # "pending"
    /\ \/ call.fn = "_process_historical_data_msg"
       \/ call.fn = "_process_ref_data_msg" /\ Len(DecodedEntries) = 1

DecodedSecurity ==
    IF call.fn = "_process_ref_data_msg" THEN DecodedEntries[1]
    ELSE getElement(call.element, SECURITY_DATA)

ReportedFieldIds ==
    {AsStr(getElement(x, FIELD_ID).value) :
        x \in {getElement(DecodedSecurity, FIELD_EXCEPTIONS).children[i] :
                  i \in 1..Len(getElement(DecodedSecurity, FIELD_EXCEPTIONS).children)}}

Mentioned(d) == KeySet(d) \cup {d.kv[i].val : i \in 1..Len(d.kv)}

DataOfFieldData ==
    IF call.fn = "_process_ref_data_msg"
    THEN RefSecurityData(getElement(DecodedSecurity, FIELD_DATA))
    ELSE HistSecurityDataResults(getElement(DecodedSecurity, FIELD_DATA))

C21_EveryReportedFieldIsCaptured ==
    OneSecurityDecoded =>
        /\ ~Failed(result)
        /\ ReportedFieldIds \subseteq
              Mentioned(GetItem(result.val.results, Str("field_exceptions")))
        /\ GetItem(result.val.results, Str("security_data")) = DataOfFieldData.val

\* C22: each of two invocations of process_session, their steps interleaved
\* in any order, returns or raises what it does when it runs alone on its
\* event stream, and a step of one changes nothing of the other.
RunAlone(f) == process_session(f.request_type, f.stream, Folded(EmptyDict, <<>>))

C22_InvocationsDoNotInterfere ==
    /\ [](\A i \in Invocations :
            frames[i].pc \in {"done", "raised"} => frames[i].outcome = RunAlone(frames[i]))
    /\ [][\A i \in Invocations :
            frames'[i] # frames[i] => \A j \in Invocations \ {i} : frames'[j] = frames[j]]_vars

C22_OneReturnedOtherMidRun ==
    /\ frames[1].pc = "done"
    /\ frames[2].pc = "messages"
    /\ frames[2].idx = 2
    /\ frames[1].request_type = frames[2].request_type
    /\ frames[1].stream # frames[2].stream
    /\ DOMAIN frames[1].security_responses = DOMAIN frames[2].security_responses
    /\ frames[1].outcome = RunAlone(frames[1])
    /\ frames[1].outcome # Ok(frames[2].output)

\* C23: Session(host, port) connects to the host and the port it is given,
\* and to localhost and 8194 when they are None.
GivenOr(given, default) == IF given = None THEN default ELSE given

C23_ConnectsWhereTheCallerSays ==
    (call.fn = "Session" /\ result.exc # "pending") =>
        /\ GetItem(result.val, Str("host")) = GivenOr(ListItems(call.obj)[1], DEFAULT_HOST)
        /\ GetItem(result.val, Str("port")) = GivenOr(ListItems(call.obj)[2], DEFAULT_PORT)

====
